---- MODULE Spec2Model ----
(***************************************************************************)
(* Model of slm/model_zoo/ernie-3.0/run_token_cls.py: the driver main()    *)
(* (output-directory guard, checkpoint selection, train / evaluate /       *)
(* predict / export steps) and the BIO span decoding loop of its predict   *)
(* step.                                                                   *)
(*                                                                         *)
(* Conventions.  A Python str is a sequence of one-character strings       *)
(* ("B-PER" is <<"B","-","P","E","R">>, "" is <<>>); a Python list is a    *)
(* sequence; Python indices are 0-based and are kept 0-based in every      *)
(* number the model stores (i, start, pos), so a span's Python pos[0] and  *)
(* pos[1] are the TLA+ tuple components pos[1] and pos[2].  None is the    *)
(* string "None".                                                          *)
(***************************************************************************)
EXTENDS Integers, Sequences, FiniteSets, TLC

VARIABLES
    pc,               \* position of main(): the statement it runs next
    training_args,    \* do_train, do_eval, do_predict, do_export,
                      \* overwrite_output_dir, resume_from_checkpoint
    output_dir,       \* the directory as line 62 finds it: isdir, number of
                      \* entries, and what get_last_checkpoint() returns
    last_checkpoint,  \* line 61 / 63
    checkpoint,       \* line 154..158
    log,              \* the external steps main() has run, in order
    label_list,       \* line 76
    tokens_label,     \* line 177..178: per example, the argmax label indices
    test_dataset,     \* per example, convert_ids_to_tokens(input_ids)
    batch,            \* index of the outer loop, line 180
    token_label,      \* loop variable of line 180
    input_data,       \* line 184
    i,                \* index of the inner loop, line 185
    start,            \* line 181
    label_name,       \* line 182
    items,            \* line 183
    value,            \* line 179
    out_file          \* what json.dump wrote to test_results.json

vars == <<pc, training_args, output_dir, last_checkpoint, checkpoint, log,
          label_list, tokens_label, test_dataset, batch, token_label,
          input_data, i, start, label_name, items, value, out_file>>

driverVars == <<training_args, output_dir, last_checkpoint, checkpoint>>
scanVars == <<batch, token_label, input_data, i, start, label_name, items>>

(***************************************************************************)
(* Bounds of the model.                                                    *)
(***************************************************************************)
MaxLen == 4       \* longest label sequence and longest token sequence
MaxEntries == 2   \* most entries of the output directory

None == "None"

(***************************************************************************)
(* Python sequence primitives.                                             *)
(***************************************************************************)
\* A slice bound k on a sequence of length n: negative counts from the end,
\* and the result is clamped into 0..n.
SliceBound(n, k) ==
    IF k < 0 THEN (IF n + k < 0 THEN 0 ELSE n + k)
    ELSE (IF k > n THEN n ELSE k)

\* s[a:b]
PySlice(s, a, b) ==
    LET lo == SliceBound(Len(s), a)
        hi == SliceBound(Len(s), b)
    IN  IF lo >= hi THEN <<>> ELSE SubSeq(s, lo + 1, hi)

\* sub in s, for strings
Contains(s, sub) ==
    \E k \in 1..(Len(s) - Len(sub) + 1) : SubSeq(s, k, k + Len(sub) - 1) = sub

\* "".join(list)
RECURSIVE Join(_)
Join(list) == IF list = <<>> THEN <<>> ELSE Head(list) \o Join(Tail(list))

\* A JSON value of the "entity" field: a str or a list of str.
StrVal(s) == [type |-> "str", val |-> s]
ListVal(l) == [type |-> "list", val |-> l]

B_ == <<"B", "-">>
O_ == <<"O">>

(***************************************************************************)
(* The body of the inner loop, lines 185-200, on the decoder state         *)
(* st = [start, label_name, items].                                        *)
(***************************************************************************)
(* Faulty variants of CloseSpan, against which the properties are tested. *)
\* closes at "O" only
CloseSpanOnlyAtO(st, idx, label, data) ==
    IF label = O_ /\ st.start >= 0
    THEN [st EXCEPT
            !.items = Append(@, [pos |-> <<st.start, idx - 2>>,
                                 entity |-> StrVal(Join(PySlice(data, st.start, idx - 1))),
                                 label |-> st.label_name]),
            !.start = -1]
    ELSE st

\* line 197 left out
CloseSpanNoReset(st, idx, label, data) ==
    IF (label = O_ \/ Contains(label, B_)) /\ st.start >= 0
    THEN [st EXCEPT
            !.items = Append(@, [pos |-> <<st.start, idx - 2>>,
                                 entity |-> StrVal(Join(PySlice(data, st.start, idx - 1))),
                                 label |-> st.label_name])]
    ELSE st

\* end index i - 1 at line 192
CloseSpanNaiveEnd(st, idx, label, data) ==
    IF (label = O_ \/ Contains(label, B_)) /\ st.start >= 0
    THEN [st EXCEPT
            !.items = Append(@, [pos |-> <<st.start, idx - 1>>,
                                 entity |-> StrVal(Join(PySlice(data, st.start, idx - 1))),
                                 label |-> st.label_name]),
            !.start = -1]
    ELSE st

\* items.insert(0, ...) at line 190
CloseSpanPrepend(st, idx, label, data) ==
    IF (label = O_ \/ Contains(label, B_)) /\ st.start >= 0
    THEN [st EXCEPT
            !.items = << [pos |-> <<st.start, idx - 2>>,
                          entity |-> StrVal(Join(PySlice(data, st.start, idx - 1))),
                          label |-> st.label_name] >> \o @,
            !.start = -1]
    ELSE st

\* lines 186-197: close the open span at a boundary label
CloseSpan(st, idx, label, data) ==
    IF (label = O_ \/ Contains(label, B_)) /\ st.start >= 0
    THEN [st EXCEPT
            !.items = Append(@, [pos |-> <<st.start, idx - 2>>,
                                 entity |-> StrVal(Join(PySlice(data, st.start, idx - 1))),
                                 label |-> st.label_name]),
            !.start = -1]
    ELSE st

(* Faulty variant of OpenSpan: start = i at line 199. *)
OpenSpanAtIndex(st, idx, label) ==
    IF Contains(label, B_)
    THEN [st EXCEPT !.start = idx,
                    !.label_name = PySlice(label, 2, Len(label))]
    ELSE st

\* lines 198-200: open a span at a label that contains "B-"
OpenSpan(st, idx, label) ==
    IF Contains(label, B_)
    THEN [st EXCEPT !.start = idx - 1,
                    !.label_name = PySlice(label, 2, Len(label))]
    ELSE st

ScanBody(st, idx, label, data) == OpenSpan(CloseSpan(st, idx, label, data), idx, label)

(* Faulty variant of TrailingSpan. *)
\* end index len(token_label) - 2 at line 204
TrailingSpanShortEnd(st, labels, data) ==
    IF st.start >= 0
    THEN Append(st.items, [pos |-> <<st.start, Len(labels) - 2>>,
                           entity |-> ListVal(PySlice(data, st.start, Len(labels) - 1)),
                           label |-> <<>>])
    ELSE st.items

\* lines 201-208: the span still open after the scan
TrailingSpan(st, labels, data) ==
    IF st.start >= 0
    THEN Append(st.items, [pos |-> <<st.start, Len(labels) - 1>>,
                           entity |-> ListVal(PySlice(data, st.start, Len(labels) - 1)),
                           label |-> <<>>])
    ELSE st.items

(***************************************************************************)
(* Inputs.                                                                 *)
(***************************************************************************)
PER == <<"P", "E", "R">>
LabelsPER == << O_, B_ \o PER, <<"I", "-">> \o PER >>
\* O, B-PER, I-ORG, I-SUB-X
LabelsMixed == << O_, B_ \o PER, <<"I", "-", "O", "R", "G">>,
                  <<"I", "-", "S", "U", "B", "-", "X">> >>
LabelLists == {LabelsPER, LabelsMixed}

Tokens == { <<"a">>, <<"b", "c">> }
CLS == <<"[CLS]">>
SEP == <<"[SEP]">>

SeqsUpTo(S, n) == UNION { [1..k -> S] : k \in 0..n }

\* One example: the argmax label indices and the tokens between [CLS] and [SEP].
Examples(list) ==
    { [labels |-> l, tokens |-> t] :
        l \in SeqsUpTo(0..(Len(list) - 1), MaxLen), t \in SeqsUpTo(Tokens, MaxLen) }

WorkedTokens == << <<"j">>, <<"o">>, <<"h">>, <<"n">>, <<" ">>,
                   <<"s">>, <<"m">>, <<"i">>, <<"t">>, <<"h">> >>
WorkedLabels == <<1, 2, 2, 2, 0, 1, 2, 2, 2, 2>>
WorkedExample == [labels |-> WorkedLabels, tokens |-> WorkedTokens]

\* The batches trainer.predict may return in the decoder's specification:
\* one example each.
DecodeBatches(list) == { <<e>> : e \in Examples(list) \cup {WorkedExample} }

\* The batches trainer.predict may return in the driver's specification.
DriverBatches(list) ==
    { <<>>,
      << [labels |-> <<0, 1, 2, 0>>, tokens |-> << <<"a">>, <<"b", "c">> >>] >>,
      << [labels |-> <<1, 1>>, tokens |-> <<>>],
         [labels |-> <<0, 1, 2>>, tokens |-> << <<"a">> >>] >> }

(***************************************************************************)
(* The driver, lines 58-73 and 154-158.                                    *)
(***************************************************************************)
\* line 62: whether the last checkpoint is looked for
Detects(args, dir) ==
    dir.isdir /\ args.do_train /\ ~args.overwrite_output_dir

\* lines 61-63: last_checkpoint.  get_last_checkpoint(output_dir) is the
\* directory's answer dir.last.
DetectedCheckpoint(args, dir) ==
    IF Detects(args, dir) THEN dir.last ELSE None

(* Faulty variant of GuardRaises: no error when resume_from_checkpoint is set. *)
GuardRaisesUnlessResume(args, dir) ==
    /\ Detects(args, dir)
    /\ DetectedCheckpoint(args, dir) = None
    /\ dir.entries > 0
    /\ args.resume_from_checkpoint = None

\* lines 62-68: whether main raises ValueError
GuardRaises(args, dir) ==
    Detects(args, dir) /\ DetectedCheckpoint(args, dir) = None /\ dir.entries > 0

\* lines 154-158
SelectCheckpoint(resume, last) ==
    IF resume # None THEN resume
    ELSE IF last # None THEN last
    ELSE None

Event(op, arg) == [op |-> op, arg |-> arg]

NoFile == [written |-> FALSE, value |-> <<>>, tokens_label |-> <<>>]

\* lines 58-73
DetectLastCheckpoint ==
    /\ pc = "detect"
    /\ last_checkpoint' = DetectedCheckpoint(training_args, output_dir)
    /\ pc' = IF GuardRaises(training_args, output_dir) THEN "ValueError" ELSE "load_dataset"
    /\ UNCHANGED <<training_args, output_dir, checkpoint, log, label_list, tokens_label,
                   test_dataset, value, out_file, scanVars>>

\* lines 75-158: the dataset and its label list, the trainer, the checkpoint
LoadDataset ==
    /\ pc = "load_dataset"
    /\ \E list \in LabelLists : label_list' = list
    /\ log' = Append(log, Event("load_dataset", None))
    /\ checkpoint' = SelectCheckpoint(training_args.resume_from_checkpoint, last_checkpoint)
    /\ pc' = "train"
    /\ UNCHANGED <<training_args, output_dir, last_checkpoint, tokens_label,
                   test_dataset, value, out_file, scanVars>>

\* lines 161-167
Train ==
    /\ pc = "train"
    /\ log' = IF training_args.do_train THEN Append(log, Event("train", checkpoint)) ELSE log
    /\ pc' = "evaluate"
    /\ UNCHANGED <<driverVars, label_list, tokens_label, test_dataset, value, out_file, scanVars>>

\* lines 170-172
Evaluate ==
    /\ pc = "evaluate"
    /\ log' = IF training_args.do_eval THEN Append(log, Event("evaluate", None)) ELSE log
    /\ pc' = "predict"
    /\ UNCHANGED <<driverVars, label_list, tokens_label, test_dataset, value, out_file, scanVars>>

\* lines 174-179: trainer.predict returns one of Batches
PredictStep(Batches) ==
    /\ pc = "predict"
    /\ IF training_args.do_predict
       THEN \E b \in Batches :
              /\ \A e \in 1..Len(b) : \A k \in 1..Len(b[e].labels) :
                    b[e].labels[k] < Len(label_list)
              /\ tokens_label' = [e \in 1..Len(b) |-> b[e].labels]
              /\ test_dataset' = [e \in 1..Len(b) |-> <<CLS>> \o b[e].tokens \o <<SEP>>]
              /\ value' = <<>>
              /\ log' = Append(log, Event("predict", None))
              /\ batch' = 0
              /\ pc' = "for_batch"
       ELSE /\ pc' = "export"
            /\ UNCHANGED <<tokens_label, test_dataset, value, log, batch>>
    /\ UNCHANGED <<driverVars, label_list, out_file,
                   token_label, input_data, i, start, label_name, items>>

Predict == PredictStep(DecodeBatches(label_list))

PredictMain == PredictStep(DriverBatches(label_list))

\* lines 180-184: the next example of the batch
NextExample ==
    /\ pc = "for_batch"
    /\ batch < Len(tokens_label)
    /\ token_label' = tokens_label[batch + 1]
    /\ start' = -1
    /\ label_name' = <<>>
    /\ items' = <<>>
    /\ input_data' = PySlice(test_dataset[batch + 1], 1, -1)
    /\ i' = 0
    /\ pc' = "scan"
    /\ UNCHANGED <<driverVars, log, label_list, tokens_label, test_dataset, batch,
                   value, out_file>>

\* lines 185-200: one iteration of the scan
ScanStep ==
    /\ pc = "scan"
    /\ i < Len(token_label)
    /\ LET st == ScanBody([start |-> start, label_name |-> label_name, items |-> items],
                          i, label_list[token_label[i + 1] + 1], input_data)
       IN  /\ start' = st.start
           /\ label_name' = st.label_name
           /\ items' = st.items
    /\ i' = i + 1
    /\ UNCHANGED <<pc, driverVars, log, label_list, tokens_label, test_dataset, batch,
                   token_label, input_data, value, out_file>>

\* lines 201-209: after the scan
EndExample ==
    /\ pc = "scan"
    /\ i = Len(token_label)
    /\ items' = TrailingSpan([start |-> start, label_name |-> label_name, items |-> items],
                             token_label, input_data)
    /\ value' = Append(value, items')
    /\ batch' = batch + 1
    /\ pc' = "for_batch"
    /\ UNCHANGED <<driverVars, log, label_list, tokens_label, test_dataset,
                   token_label, input_data, i, start, label_name, out_file>>

\* lines 210-212
WriteResults ==
    /\ pc = "for_batch"
    /\ batch = Len(tokens_label)
    /\ out_file' = [written |-> TRUE, value |-> value, tokens_label |-> tokens_label]
    /\ log' = Append(log, Event("write_results", None))
    /\ pc' = "export"
    /\ UNCHANGED <<driverVars, label_list, tokens_label, test_dataset, value, scanVars>>

\* lines 215-226
Export ==
    /\ pc = "export"
    /\ log' = IF training_args.do_export THEN Append(log, Event("export", None)) ELSE log
    /\ pc' = "done"
    /\ UNCHANGED <<driverVars, label_list, tokens_label, test_dataset, value, out_file, scanVars>>

(***************************************************************************)
(* Specifications.                                                         *)
(***************************************************************************)
Checkpoints == {"checkpoint-1", "checkpoint-2"}

OutputDirs ==
    { d \in [isdir : BOOLEAN, entries : 0..MaxEntries, last : Checkpoints \cup {None}] :
        /\ ~d.isdir => d.entries = 0
        /\ d.last # None => d.entries >= 1 }

TrainingArgs ==
    [do_train : BOOLEAN, do_eval : BOOLEAN, do_predict : BOOLEAN, do_export : BOOLEAN,
     overwrite_output_dir : BOOLEAN, resume_from_checkpoint : {None, "checkpoint-r"}]

Blank ==
    /\ tokens_label = <<>>
    /\ test_dataset = <<>>
    /\ batch = 0
    /\ token_label = <<>>
    /\ input_data = <<>>
    /\ i = 0
    /\ start = -1
    /\ label_name = <<>>
    /\ items = <<>>
    /\ value = <<>>
    /\ out_file = NoFile

\* main() at line 58, for every command line and output directory
InitMain ==
    /\ pc = "detect"
    /\ training_args \in TrainingArgs
    /\ output_dir \in OutputDirs
    /\ last_checkpoint = None
    /\ checkpoint = None
    /\ log = <<>>
    /\ label_list = <<>>
    /\ Blank

NextMain ==
    \/ DetectLastCheckpoint
    \/ LoadDataset
    \/ Train
    \/ Evaluate
    \/ PredictMain
    \/ NextExample
    \/ ScanStep
    \/ EndExample
    \/ WriteResults
    \/ Export

SpecMain == InitMain /\ [][NextMain]_vars

\* main() at line 174 of a run with --do_predict alone, for every label list
Init ==
    /\ pc = "predict"
    /\ training_args = [do_train |-> FALSE, do_eval |-> FALSE, do_predict |-> TRUE,
                        do_export |-> FALSE, overwrite_output_dir |-> FALSE,
                        resume_from_checkpoint |-> None]
    /\ output_dir = [isdir |-> FALSE, entries |-> 0, last |-> None]
    /\ last_checkpoint = None
    /\ checkpoint = None
    /\ log = <<Event("load_dataset", None)>>
    /\ label_list \in LabelLists
    /\ Blank

Next ==
    \/ Predict
    \/ NextExample
    \/ ScanStep
    \/ EndExample
    \/ WriteResults
    \/ Export

Spec == Init /\ [][Next]_vars

(***************************************************************************)
(* Vocabulary of the properties.                                           *)
(***************************************************************************)
\* The example whose inputs token_label and input_data hold has been decoded:
\* items is its output (value[batch]).
Decoded == batch >= 1 /\ pc # "scan"

\* The scan is about to run the loop body at position i.
AtPosition == pc = "scan" /\ i < Len(token_label)

\* The scan is over and lines 201-209 run next.
AfterScan == pc = "scan" /\ i = Len(token_label)

SameLen == Len(input_data) = Len(token_label)

\* The label string at 0-based position k of the current example.
LabelAt(k) == label_list[token_label[k + 1] + 1]

StartsWith(s, p) == Len(s) >= Len(p) /\ SubSeq(s, 1, Len(p)) = p

TypeOf(label) == SubSeq(label, 3, Len(label))

Positions == 0..(Len(token_label) - 1)

BPositions == { k \in Positions : StartsWith(LabelAt(k), B_) }

SpansStartingAt(k) == { n \in 1..Len(items) : items[n].pos[1] = k }

\* The tokens at positions a..b inclusive, concatenated with no separator.
Covered(a, b) == Join([k \in 1..(b - a + 1) |-> input_data[a + k]])

Last(s) == s[Len(s)]

Extends(new, old) == Len(new) = Len(old) + 1 /\ SubSeq(new, 1, Len(old)) = old

IsWorked ==
    /\ Decoded
    /\ label_list = LabelsPER
    /\ token_label = WorkedLabels
    /\ input_data = WorkedTokens

(***************************************************************************)
(* C1.  Worked example.                                                    *)
(***************************************************************************)
\* C1 as stated: decoding the worked example (O, B-PER, I-PER; j o h n _ s m
\* i t h; labels 1 2 2 2 0 1 2 2 2 2) yields exactly {pos [0,2], "john", PER}
\* followed by the trailing span {pos [5,9], "smith", ""}.
C1_AsStated ==
    IsWorked =>
        items = << [pos |-> <<0, 2>>,
                    entity |-> StrVal(<<"j", "o", "h", "n">>),
                    label |-> PER],
                   [pos |-> <<5, 9>>,
                    entity |-> StrVal(<<"s", "m", "i", "t", "h">>),
                    label |-> <<>>] >>

\* C1 amended: decoding the worked example yields exactly one span, the
\* trailing one: pos [4,9], entity the unjoined token list [" ","s","m","i","t"],
\* label "".  The B-PER at position 0 opens no span.
C1_WorkedExample ==
    IsWorked =>
        items = << [pos |-> <<4, 9>>,
                    entity |-> ListVal(<< <<" ">>, <<"s">>, <<"m">>, <<"i">>, <<"t">> >>),
                    label |-> <<>>] >>

C1_Witness == IsWorked /\ Len(items) = 1

(***************************************************************************)
(* C2.  One span per B- label.                                             *)
(***************************************************************************)
\* C2 as stated: for equal-length inputs, every position k (k = 0 included)
\* whose label begins with "B-" has exactly one output span with pos[0] = k,
\* and the number of spans is the number of B- labels.
C2_AsStated ==
    (Decoded /\ SameLen) =>
        /\ \A k \in BPositions : Cardinality(SpansStartingAt(k)) = 1
        /\ Len(items) = Cardinality(BPositions)

\* C2 amended: for equal-length inputs, every position k >= 1 whose label
\* begins with "B-" has exactly one output span with pos[0] = k - 1, a B- label
\* at position 0 opens no span, and the number of spans is the number of
\* positions k >= 1 whose label contains "B-".
C2_SpanPerB ==
    (Decoded /\ SameLen) =>
        /\ \A k \in BPositions : k >= 1 => Cardinality(SpansStartingAt(k - 1)) = 1
        /\ SpansStartingAt(-1) = {}
        /\ Len(items) = Cardinality({ k \in Positions : k >= 1 /\ Contains(LabelAt(k), B_) })

C2_Witness ==
    /\ Decoded
    /\ SameLen
    /\ 0 \in BPositions
    /\ Cardinality(BPositions) = 3
    /\ Len(items) = 2

(***************************************************************************)
(* C3.  Entity text.                                                       *)
(***************************************************************************)
\* C3: for equal-length inputs, every emitted span's entity is one string, the
\* concatenation with no separator of the tokens at pos[0]..pos[1] inclusive.
C3_EntityText ==
    SameLen =>
        \A n \in 1..Len(items) :
            /\ items[n].pos[1] >= 0
            /\ items[n].pos[2] < Len(input_data)
            /\ items[n].entity = StrVal(Covered(items[n].pos[1], items[n].pos[2]))

(***************************************************************************)
(* C4.  Closing during the scan.                                           *)
(***************************************************************************)
\* C4: when the loop body runs at a position i whose label is "O" or begins
\* with "B-" while a span is open, it appends one span whose pos[1] is i - 2,
\* and start is reset to none before the new span, if any, is opened at i.
C4_CloseAtBoundary ==
    [][ (AtPosition /\ SameLen /\ start >= 0
            /\ (LabelAt(i) = O_ \/ StartsWith(LabelAt(i), B_)))
        => /\ Extends(items', items)
           /\ Last(items').pos = <<start, i - 2>>
           /\ CloseSpan([start |-> start, label_name |-> label_name, items |-> items],
                        i, LabelAt(i), input_data).start = -1
           /\ start' = IF StartsWith(LabelAt(i), B_) THEN i - 1 ELSE -1 ]_vars

C4_Witness ==
    /\ pc = "scan"
    /\ SameLen
    /\ i >= 3
    /\ Len(items) >= 1
    /\ Last(items).pos[2] = i - 3
    /\ start = i - 2

(***************************************************************************)
(* C5.  The trailing span.                                                 *)
(***************************************************************************)
\* C5: after the scan, exactly when a span is still open, one more span is
\* appended last, with pos = [start, len(labels) - 1] and label ""; every span
\* closed during the scan was opened by a label that begins with "B-" and
\* carries that label's type (the label without its "B-").
C5_TrailingSpan ==
    /\ [](pc = "scan" =>
            \A n \in 1..Len(items) :
                /\ items[n].pos[1] + 1 \in Positions
                /\ StartsWith(LabelAt(items[n].pos[1] + 1), B_)
                /\ items[n].label = TypeOf(LabelAt(items[n].pos[1] + 1)))
    /\ [][ AfterScan =>
            IF start >= 0
            THEN /\ Extends(items', items)
                 /\ Last(items').pos = <<start, Len(token_label) - 1>>
                 /\ Last(items').label = <<>>
            ELSE items' = items ]_vars

(***************************************************************************)
(* C6.  Coverage.                                                          *)
(***************************************************************************)
\* C6: for equal-length inputs, every emitted span has
\* 0 <= pos[0] <= pos[1] <= len(tokens) - 1, and the ranges of two distinct
\* spans are disjoint.
C6_Coverage ==
    SameLen =>
        /\ \A n \in 1..Len(items) :
              /\ 0 <= items[n].pos[1]
              /\ items[n].pos[1] <= items[n].pos[2]
              /\ items[n].pos[2] <= Len(input_data) - 1
        /\ \A m, n \in 1..Len(items) :
              m # n => \/ items[m].pos[2] < items[n].pos[1]
                       \/ items[n].pos[2] < items[m].pos[1]

C6_Witness ==
    /\ Decoded
    /\ SameLen
    /\ start >= 0
    /\ Len(items) >= 2
    /\ items[1].pos[2] + 1 = items[2].pos[1]

(***************************************************************************)
(* C7.  Monotonicity.                                                      *)
(***************************************************************************)
\* C7: at every point of the scan and in the final output, the emitted spans
\* are strictly increasing in pos[0] in output order.
C7_Monotone ==
    \A n \in 1..(Len(items) - 1) : items[n].pos[1] < items[n + 1].pos[1]

C7_Witness == pc = "scan" /\ Len(items) >= 2 /\ start >= 0

(***************************************************************************)
(* C8.  A single B- label at the last position.                            *)
(***************************************************************************)
OnlyLastB ==
    /\ Len(token_label) >= 1
    /\ StartsWith(LabelAt(Len(token_label) - 1), B_)
    /\ \A k \in Positions : k < Len(token_label) - 1 => LabelAt(k) = O_

\* C8 as stated: for equal-length inputs of length n >= 1 whose only B- label
\* is at position n - 1, all others "O", the output is exactly one span, with
\* pos = [n - 1, n - 1].
C8_AsStated ==
    (Decoded /\ SameLen /\ OnlyLastB) =>
        /\ Len(items) = 1
        /\ items[1].pos = <<Len(token_label) - 1, Len(token_label) - 1>>

\* C8 amended: for such inputs the output is, when n >= 2, exactly one span,
\* the trailing unterminated one, with pos = [n - 2, n - 1] and label "";
\* when n = 1 the output is empty.
C8_TrailingB ==
    (Decoded /\ SameLen /\ OnlyLastB) =>
        IF Len(token_label) >= 2
        THEN /\ Len(items) = 1
             /\ items[1].pos = <<Len(token_label) - 2, Len(token_label) - 1>>
             /\ items[1].label = <<>>
        ELSE items = <<>>

C8_Witness == Decoded /\ SameLen /\ OnlyLastB /\ Len(token_label) >= 3 /\ Len(items) = 1

(***************************************************************************)
(* C9.  I- labels.                                                         *)
(***************************************************************************)
\* C9: the loop body at a label "I-<TYPE>" changes nothing of the decoder
\* state, whatever TYPE is: items, start and label_name stay as they are.
C9_ContinuationFrame ==
    [][ (AtPosition /\ StartsWith(LabelAt(i), <<"I", "-">>))
        => (items' = items /\ start' = start /\ label_name' = label_name) ]_vars

(***************************************************************************)
(* C10.  Output-directory guard.                                           *)
(***************************************************************************)
\* The case of the guard: --do_train without --overwrite_output_dir on an
\* existing, non-empty directory that holds no checkpoint.
RaiseCase ==
    /\ training_args.do_train
    /\ ~training_args.overwrite_output_dir
    /\ output_dir.isdir
    /\ output_dir.entries > 0
    /\ output_dir.last = None

ExpectedCheckpoint ==
    IF training_args.resume_from_checkpoint # None
    THEN training_args.resume_from_checkpoint
    ELSE IF output_dir.isdir /\ ~training_args.overwrite_output_dir
         THEN output_dir.last
         ELSE None

\* C10: in the case of the guard main raises ValueError before the dataset is
\* loaded and before any train, evaluate, predict, write or export step,
\* whatever resume_from_checkpoint is; in every other case it does not raise,
\* and training is given resume_from_checkpoint if set, otherwise the last
\* checkpoint detected, otherwise none.
C10_OutputDirGuard ==
    /\ RaiseCase => (pc \in {"detect", "ValueError"} /\ log = <<>> /\ ~out_file.written)
    /\ ~RaiseCase => pc # "ValueError"
    /\ \A n \in 1..Len(log) : log[n].op = "train" => log[n].arg = ExpectedCheckpoint

C10_Witness ==
    /\ pc = "ValueError"
    /\ training_args.resume_from_checkpoint # None
    /\ log = <<>>

====
